---- MODULE Spec2Model ----
(***************************************************************************)
(* UnderconstrainedGoal noisy filter of stomp_moveit                       *)
(* (stomp_moveit/src/noisy_filters/underconstrained_goal.cpp).             *)
(*                                                                         *)
(* Lengths and angles are integers ("ticks").  Every value the solver      *)
(* handles is a multiple of a power of two, so that the per-joint gains    *)
(* 0, 1/2 and 1 are applied exactly (ExactArithmetic).                     *)
(*                                                                         *)
(* The robot model is an external collaborator.  The kinematic chain used  *)
(* here has two joints: joint 1 is prismatic along x, joint 2 is revolute  *)
(* about z with the tool frame on its axis.  Every tool rotation is a      *)
(* rotation about z, stored as its angle in [0, FullTurn).                 *)
(***************************************************************************)
EXTENDS Integers, Sequences, FiniteSets, TLC

\* --------------------------------------------------------------- bounds
\* largest iteration budget a configuration supplies
MaxIterBound == 2
\* how many times the planner may load a configuration into one instance
MaxConfigureCalls == 2

\* --------------------------------------------------- program constants
DOF_SIZE == 6
\* EPSILON = 0.1 = 1 / EpsilonInv
EpsilonInv == 10
\* LAMBDA = 0.01 = 1 / LambdaInv
LambdaInv == 100
\* joint_update_rates are stored as numerators over RateDen (0, 1/2, 1)
RateDen == 2

RECURSIVE Pow2(_)
Pow2(n) == IF n = 0 THEN 1 ELSE 2 * Pow2(n - 1)

\* coarsest unit of the inputs: a gain of 1/2 stays exact for MaxIterBound updates
Grid == Pow2(MaxIterBound)
\* M_PI in ticks
HalfTurn == 4 * Grid
FullTurn == 2 * HalfTurn

Abs(x) == IF x < 0 THEN 0 - x ELSE x
Axes == 1 .. DOF_SIZE

\* ------------------------------------------------- kinematic collaborator
\* Cartesian axis driven by each joint of the group (1 = x, 6 = rz)
JointAxis == <<1, 6>>
NumJoints == Len(JointAxis)
Joints == 1 .. NumJoints
\* position bounds of every joint, applied by RobotState::enforceBounds
JointMin == 0 - Grid
JointMax == Grid

Pose(t, r) == [trans |-> t, rot |-> r]

\* RobotState::getGlobalLinkTransform(tool_link_) for joint positions q
GlobalLinkTransform(q) == Pose(<<q[1], 0, 0>>, q[2] % FullTurn)

\* RobotState::enforceBounds(joint_group)
EnforceBoundsSkipped(q) == q
EnforceBounds(q) ==
  [j \in Joints |-> IF q[j] < JointMin THEN JointMin
                    ELSE IF q[j] > JointMax THEN JointMax ELSE q[j]]

\* RobotState::getJacobian: 6 x N, column j is the unit twist of joint j,
\* the same at every joint position q of this chain
Jacobian(q) == [a \in Axes |-> [j \in Joints |-> IF JointAxis[j] = a THEN 1 ELSE 0]]

\* ------------------------------------------------------ static helpers
\* reduceJacobian: the rows named by indices, in index order
reduceJacobian(jacb, indices) == [i \in 1 .. Len(indices) |-> jacb[indices[i]]]

\* reciprocal of one singular value, damped below EPSILON
InvSv(sv) ==
  IF EpsilonInv * Abs(sv) > 1
    THEN 1 \div sv
    ELSE (sv * LambdaInv * LambdaInv) \div (sv * sv * LambdaInv * LambdaInv + 1)

RowNorm(row) == IF \E j \in DOMAIN row : row[j] # 0 THEN 1 ELSE 0

\* calculateDampedPseudoInverse.  The rows of the reduced Jacobian of this
\* chain are distinct unit vectors or zero, so its thin SVD is U = I,
\* Sv = the row norms, V = the rows; the result is N x K.
calculateDampedPseudoInverse(jacb) ==
  [j \in Joints |-> [k \in DOMAIN jacb |-> jacb[k][j] * InvSv(RowNorm(jacb[k]))]]

\* Eigen::AngleAxisd(p0.rotation().transpose() * pf.rotation()) for rotations about z
AngleAxis(r0, rf) ==
  LET d == (rf - r0) % FullTurn
  IN  IF d = 0 THEN [angle |-> 0, axis |-> <<1, 0, 0>>]
      ELSE IF d <= HalfTurn THEN [angle |-> d, axis |-> <<0, 0, 1>>]
      ELSE [angle |-> FullTurn - d, axis |-> <<0, 0, 0 - 1>>]

\* forcing angle to range [-pi , pi]
RECURSIVE WrapAngle(_)
WrapAngle(angle) ==
  IF angle > HalfTurn \/ angle < 0 - HalfTurn
    THEN LET a1 == IF angle > HalfTurn THEN angle - FullTurn ELSE angle
             a2 == IF a1 < 0 - HalfTurn THEN a1 + FullTurn ELSE a1
         IN  WrapAngle(a2)
    ELSE angle

\* computeTwist: translation difference, scaled relative rotation axis,
\* entries of underconstrained dofs zeroed
computeTwist(p0, pf, nullity) ==
  LET rel   == AngleAxis(p0.rot, pf.rot)
      angle == WrapAngle(rel.angle)
      full  == [a \in Axes |-> IF a <= 3 THEN pf.trans[a] - p0.trans[a]
                                ELSE rel.axis[a - 3] * angle]
  IN  [a \in DOMAIN nullity |-> IF nullity[a] = 0 THEN 0 ELSE full[a]]

\* ------------------------------------------------------------ the state
VARIABLES
  dof_nullity_,                       \* Eigen::ArrayXi, constraint mask
  cartesian_convergence_thresholds_,  \* Eigen::ArrayXd
  joint_update_rates_,                \* Eigen::ArrayXd, numerators over RateDen
  max_iterations_,                    \* iteration budget
  tool_goal_pose_,                    \* Eigen::Affine3d
  state_,                             \* shared RobotState: joint positions, NullState before the first request
  cfg_ret,                            \* what the last configure() returned
  cfg_exact,                          \* the last configure() was given exactly DOF_SIZE entries in both fixed-size arrays
  req,                                \* the last MotionPlanRequest handed to setMotionPlanRequest
  req_ret,                            \* what it returned, and the error code it set
  pc,                                 \* position of each filter() invocation
  parameters,                         \* each invocation's waypoint matrix (a sequence of columns)
  parameters0,                        \* that matrix as it was when filter() was called
  joint_pose,                         \* runIK: joint_pose
  tool_current_pose,                  \* runIK: tool_current_pose
  iteration_count,                    \* runIK: iteration_count
  converged,                          \* runIK: converged
  outcome,                            \* state of the IK iterator
  checks_failed,                      \* convergence checks that failed in this invocation
  updates,                            \* joint updates applied in this invocation
  filtered,                           \* filter(): the filtered out-parameter
  ret,                                \* filter(): the value returned
  cfg_calls                           \* configure() calls made so far

config == <<dof_nullity_, cartesian_convergence_thresholds_, joint_update_rates_, max_iterations_>>
instance == <<config, tool_goal_pose_, state_, cfg_ret, cfg_exact, req, req_ret>>
locals == <<pc, parameters, parameters0, joint_pose, tool_current_pose, iteration_count,
            converged, outcome, checks_failed, updates, filtered, ret>>
vars == <<instance, locals, cfg_calls>>

NullState == <<>>
\* a pose that no request and no joint vector produces: the member before it is assigned
NoPose == Pose(<<>>, 0)

\* ------------------------------------------------- configuration inputs
\* an XmlRpcValue array element: ok iff it has the type the cast asks for
Elem(v) == [ok |-> TRUE, v |-> v]
BadElem == [ok |-> FALSE, v |-> 0]
Arr(s) == [type |-> "array", elems |-> [i \in DOMAIN s |-> Elem(s[i])]]
NotArr == [type |-> "invalid", elems |-> <<>>]
WithBad(p, i) == [p EXCEPT !.elems[i] = BadElem]
Shorter(p) == [p EXCEPT !.elems = SubSeq(p.elems, 1, Len(p.elems) - 1)]
Longer(p) == [p EXCEPT !.elems = Append(p.elems, Elem(1))]

AllAxes == <<1, 1, 1, 1, 1, 1>>
PositionOnly == <<1, 1, 1, 0, 0, 0>>
Loose == <<3, 3, 3, 3, 3, 3>>
\* thresholds of 1 tick on the position axes and 0 on the rotation axes
LooseOnPosition == <<1, 1, 1, 0, 0, 0>>

ConfigInput(dofs, thr, rates, max) ==
  [constrained_dofs |-> dofs, cartesian_convergence |-> thr,
   joint_update_rates |-> rates, max_ik_iterations |-> max]

\* well-formed configurations: gains of 1/2 or 1 on both joints
GoodInputs ==
  {ConfigInput(Arr(d), Arr(c), Arr(r), Elem(n)) :
     d \in {AllAxes, PositionOnly}, c \in {Loose, LooseOnPosition},
     r \in {<<1, 1>>, <<2, 2>>}, n \in 1 .. MaxIterBound}

\* one of them with one parameter malformed
DefectiveInputs ==
  LET g == ConfigInput(Arr(PositionOnly), Arr(Loose), Arr(<<2, 2>>), Elem(1))
  IN  {[g EXCEPT !.constrained_dofs = d] :
         d \in {Shorter(Arr(AllAxes)), Longer(Arr(AllAxes)), WithBad(Arr(AllAxes), 3), NotArr}}
      \cup {[g EXCEPT !.cartesian_convergence = c] :
         c \in {Shorter(Arr(LooseOnPosition)), Longer(Arr(LooseOnPosition)),
                WithBad(Arr(LooseOnPosition), 3), NotArr}}
      \cup {[g EXCEPT !.joint_update_rates = r] :
         r \in {WithBad(Arr(<<1, 1>>), 2), Arr(<<>>), NotArr}}
      \cup {[g EXCEPT !.max_ik_iterations = BadElem]}

ConfigInputs == GoodInputs \cup DefectiveInputs

\* contents of an Eigen array after resize(n): kept when the size is n, else uninitialized
Uninitialized(n) == {[i \in 1 .. n |-> g] : g \in {0, 1}}
Resized(cur, n) == IF Len(cur) = n THEN {cur} ELSE Uninitialized(n)

\* index of the first element whose cast throws XmlRpcException, Len + 1 if none
FirstBad(p) ==
  IF \E i \in DOMAIN p.elems : ~p.elems[i].ok
    THEN CHOOSE i \in DOMAIN p.elems :
           ~p.elems[i].ok /\ \A k \in 1 .. i - 1 : p.elems[k].ok
    ELSE Len(p.elems) + 1
Throws(p) == FirstBad(p) <= Len(p.elems)
\* the copy loop runs over the parameter's size: the entries assigned before a throw
Copied(cur, p) ==
  [i \in DOMAIN cur |-> IF i < FirstBad(p) /\ i <= Len(p.elems) THEN p.elems[i].v ELSE cur[i]]
\* the loop assigns past the end of an array of n entries
WritesPastEnd(p, n) == \E i \in DOMAIN p.elems : i < FirstBad(p) /\ i > n

\* the first test of configure(): lines 139-144
InvalidArrays(in) ==
  \/ in.constrained_dofs.type # "array"
  \/ Len(in.constrained_dofs.elems) < DOF_SIZE
  \/ in.cartesian_convergence.type # "array"
  \/ Len(in.cartesian_convergence.elems) < DOF_SIZE
  \/ in.joint_update_rates.type # "array"
  \/ Len(in.joint_update_rates.elems) = 0

ExactArrays(in) ==
  /\ Len(in.constrained_dofs.elems) = DOF_SIZE
  /\ Len(in.cartesian_convergence.elems) = DOF_SIZE

\* The members after the body of configure() has run on arrays resized to
\* n0, t0, r0, and whether it ran to the end (lines 150-169) or threw
ConfigureBody(in, n0, t0, r0) ==
  LET dofs  == in.constrained_dofs
      thr   == in.cartesian_convergence
      rates == in.joint_update_rates
      old   == [threw |-> TRUE, nullity |-> Copied(n0, dofs),
                thr |-> cartesian_convergence_thresholds_,
                rates |-> joint_update_rates_, max |-> max_iterations_]
  IN  IF Throws(dofs) THEN old
      ELSE IF Throws(thr) THEN [old EXCEPT !.thr = Copied(t0, thr)]
      ELSE IF Throws(rates)
        THEN [old EXCEPT !.thr = Copied(t0, thr), !.rates = Copied(r0, rates)]
      ELSE IF ~in.max_ik_iterations.ok
        THEN [old EXCEPT !.thr = Copied(t0, thr), !.rates = Copied(r0, rates)]
      ELSE [old EXCEPT !.threw = FALSE, !.thr = Copied(t0, thr),
                       !.rates = Copied(r0, rates), !.max = in.max_ik_iterations.v]

\* a copy loop that is reached assigns past the end of its array
PastEnd(in) ==
  \/ WritesPastEnd(in.constrained_dofs, DOF_SIZE)
  \/ ~Throws(in.constrained_dofs) /\ WritesPastEnd(in.cartesian_convergence, DOF_SIZE)

\* configure(config).  An assignment past the end of an array is undefined:
\* the build either aborts on Eigen's index assertion (abort) or carries on.
configure(in, abort) ==
  /\ cfg_ret # "abort"
  /\ state_ = NullState
  /\ cfg_calls < MaxConfigureCalls
  /\ cfg_calls' = cfg_calls + 1
  /\ cfg_exact' = ExactArrays(in)
  /\ IF InvalidArrays(in)
       THEN cfg_ret' = "false" /\ UNCHANGED config
       ELSE \E n0 \in Resized(dof_nullity_, DOF_SIZE),
               t0 \in Resized(cartesian_convergence_thresholds_, DOF_SIZE),
               r0 \in Resized(joint_update_rates_, Len(in.joint_update_rates.elems)) :
              LET b == ConfigureBody(in, n0, t0, r0)
              IN  /\ dof_nullity_' = b.nullity
                  /\ cartesian_convergence_thresholds_' = b.thr
                  /\ joint_update_rates_' = b.rates
                  /\ max_iterations_' = b.max
                  /\ cfg_ret' = IF PastEnd(in) /\ abort THEN "abort"
                                ELSE IF b.threw THEN "false" ELSE "true"
  /\ UNCHANGED <<tool_goal_pose_, state_, req, req_ret, locals>>

Configure ==
  \E in \in ConfigInputs :
    \E abort \in IF PastEnd(in) THEN BOOLEAN ELSE {FALSE} : configure(in, abort)

\* ----------------------------------------------------- planning requests
PositionConstraint(prims) == [primitive_poses |-> prims]
JointConstraint(j, pos) == [joint |-> j, position |-> pos]
Constraints(pcs, ocs, jcs) ==
  [position_constraints |-> pcs, orientation_constraints |-> ocs, joint_constraints |-> jcs]
MotionPlanRequest(start, goals) == [start_state |-> start, goal_constraints |-> goals]

NoRequest == MotionPlanRequest(<<>>, <<>>)
NoReturn == [ret |-> "none", error_code |-> "none", source |-> "none"]

PositionChoices ==
  {<<>>, <<PositionConstraint(<<>>)>>,
   <<PositionConstraint(<<<<Grid, 0, 0>>>>)>>, <<PositionConstraint(<<<<0, Grid, 0>>>>)>>}
OrientationChoices == {<<>>, <<0>>}
JointChoices ==
  {<<>>, <<JointConstraint(2, Grid)>>,
   <<JointConstraint(1, 2 * Grid), JointConstraint(2, Grid)>>}
Requests ==
  {MotionPlanRequest(<<0, 0>>, <<>>)} \cup
  {MotionPlanRequest(<<0, 0>>, <<Constraints(p, o, j)>>) :
     p \in PositionChoices, o \in OrientationChoices, j \in JointChoices}

\* state_->setVariablePosition(jc.joint_name, jc.position) for every joint constraint, in order
RECURSIVE SetVariablePositions(_, _)
SetVariablePositions(q, jcs) ==
  IF jcs = <<>> THEN q
  ELSE SetVariablePositions([q EXCEPT ![Head(jcs).joint] = Head(jcs).position], Tail(jcs))

\* the branch of line 202: the goal comes from forward kinematics
UsesForwardKinematics(goal) ==
  goal.position_constraints = <<>> \/ goal.orientation_constraints = <<>>

\* what a read of primitive_poses[0] of an empty vector may yield
StrayPositions == {<<0, 0, 0>>, <<Grid, Grid, Grid>>}

\* the planner hands a new request to the task
PlanRequest ==
  /\ cfg_ret = "true" /\ req_ret.ret # "abort"
  /\ \A t \in DOMAIN pc : pc[t] = "idle" /\ parameters[t] = <<>>
  /\ req = NoRequest
  /\ req' \in Requests
  /\ UNCHANGED <<config, tool_goal_pose_, state_, cfg_ret, cfg_exact, req_ret, locals,
                 cfg_calls>>

\* setMotionPlanRequest(planning_scene, req, config, error_code)
SetMotionPlanRequest ==
  /\ req # NoRequest
  /\ req' = NoRequest
  /\ LET goals == req.goal_constraints
         start == req.start_state
     IN  IF goals = <<>>
           THEN /\ state_' = start
                /\ req_ret' = [ret |-> "false", error_code |-> "INVALID_GOAL_CONSTRAINTS",
                               source |-> "none"]
                /\ UNCHANGED tool_goal_pose_
         ELSE IF UsesForwardKinematics(Head(goals))
           THEN IF Head(goals).joint_constraints = <<>>
                  THEN /\ state_' = start
                       /\ req_ret' = [ret |-> "false",
                                      error_code |-> "INVALID_GOAL_CONSTRAINTS",
                                      source |-> "none"]
                       /\ UNCHANGED tool_goal_pose_
                  ELSE /\ state_' = EnforceBounds(
                                      SetVariablePositions(start, Head(goals).joint_constraints))
                       /\ tool_goal_pose_' = GlobalLinkTransform(state_')
                       /\ req_ret' = [ret |-> "true", error_code |-> "SUCCESS",
                                      source |-> "fk"]
         ELSE LET prims == Head(Head(goals).position_constraints).primitive_poses
                  orient == Head(Head(goals).orientation_constraints)
              IN  /\ state_' = start
                  /\ IF prims = <<>>
                       THEN \E abort \in BOOLEAN, stray \in StrayPositions :
                              IF abort
                                THEN /\ req_ret' = [ret |-> "abort", error_code |-> "none",
                                                    source |-> "none"]
                                     /\ UNCHANGED tool_goal_pose_
                                ELSE /\ req_ret' = [ret |-> "true", error_code |-> "SUCCESS",
                                                    source |-> "stray"]
                                     /\ tool_goal_pose_' = Pose(stray, orient % FullTurn)
                       ELSE /\ req_ret' = [ret |-> "true", error_code |-> "SUCCESS",
                                           source |-> "cartesian"]
                            /\ tool_goal_pose_' = Pose(Head(prims), orient % FullTurn)
  /\ UNCHANGED <<config, cfg_ret, cfg_exact, locals, cfg_calls>>

\* ------------------------------------------------------------- filter()
\* the trajectories handed to filter(): two waypoints, the last one is the IK seed
Trajectories ==
  {<<<<0 - Grid, Grid>>, last>> :
     last \in {<<0, 0>>, <<Grid, 0>>, <<0, Grid>>, <<Grid, Grid>>}}

\* parameters.rightCols(1)
RightCol(m) == m[Len(m)]
WithRightCol(m, col) == [m EXCEPT ![Len(m)] = col]

\* indices of the constrained dofs, in index order (lines 286-293)
RECURSIVE ConstrainedFrom(_, _)
ConstrainedFrom(nullity, i) ==
  IF i > Len(nullity) THEN <<>>
  ELSE IF nullity[i] # 0 THEN <<i>> \o ConstrainedFrom(nullity, i + 1)
  ELSE ConstrainedFrom(nullity, i + 1)
ConstrainedIndices(nullity) == ConstrainedFrom(nullity, 1)

RECURSIVE Dot(_, _, _)
Dot(row, vec, k) == IF k = 0 THEN 0 ELSE row[k] * vec[k] + Dot(row, vec, k - 1)

\* while(iteration_count < max_iterations_)
LoopContinuesOff(count, max) == count <= max
LoopContinues(count, max) == count < max

\* (tool_twist.cwiseAbs().array() < cartesian_convergence_thresholds_).all()
ConvergenceReachedLax(twist, thresholds) ==
  \A a \in DOMAIN thresholds : Abs(twist[a]) <= thresholds[a]
ConvergenceReached(twist, thresholds) ==
  \A a \in DOMAIN thresholds : Abs(twist[a]) < thresholds[a]

\* delta_j = jacb_pseudo_inv * tool_twist_reduced for the Jacobian at joint
\* positions q (lines 318-338); the rotational rows of this chain's Jacobian
\* lie along z, which the rotation into tool coordinates (line 331) keeps
JointDelta(q, twist, nullity) ==
  LET indices  == ConstrainedIndices(nullity)
      reduced  == [i \in 1 .. Len(indices) |-> twist[indices[i]]]
      jacb_inv == calculateDampedPseudoInverse(reduceJacobian(Jacobian(q), indices))
  IN  [j \in Joints |-> Dot(jacb_inv[j], reduced, Len(indices))]

\* joint_pose += (joint_update_rates_ * delta_j.array()).matrix()
UpdatedJoints(q, rates, delta) ==
  [j \in Joints |-> q[j] + (rates[j] * delta[j]) \div RateDen]

\* what filter() leaves behind once runIK has returned ik with joint vector q (lines 258-268)
FilterWritesAlways(m, ik, q) ==
  [parameters |-> WithRightCol(m, q),
   filtered |-> IF ik THEN "true" ELSE "false", ret |-> IF ik THEN "true" ELSE "false"]
FilterResult(m, ik, q) ==
  IF ik THEN [parameters |-> WithRightCol(m, q), filtered |-> "true", ret |-> "true"]
  ELSE [parameters |-> m, filtered |-> "false", ret |-> "false"]

\* the value runIK returns: false at line 327, converged at line 352
RunIKReturn(t) == outcome[t] # "JacobianUnavailable" /\ converged[t]

Alive == cfg_ret # "abort" /\ req_ret.ret # "abort"

\* the pipeline calls filter() on the trajectory m of one rollout (lines 255, 278-279, 300-301)
FilterCall(t, m) ==
  /\ Alive /\ cfg_ret = "true" /\ req_ret.ret = "true" /\ req = NoRequest
  /\ pc[t] = "idle"
  /\ pc' = [pc EXCEPT ![t] = "init_set"]
  /\ parameters' = [parameters EXCEPT ![t] = m]
  /\ parameters0' = [parameters0 EXCEPT ![t] = m]
  /\ joint_pose' = [joint_pose EXCEPT ![t] = RightCol(m)]
  /\ tool_current_pose' = [tool_current_pose EXCEPT ![t] = NoPose]
  /\ iteration_count' = [iteration_count EXCEPT ![t] = 0]
  /\ converged' = [converged EXCEPT ![t] = FALSE]
  /\ outcome' = [outcome EXCEPT ![t] = "Iterating"]
  /\ checks_failed' = [checks_failed EXCEPT ![t] = 0]
  /\ updates' = [updates EXCEPT ![t] = 0]
  /\ filtered' = [filtered EXCEPT ![t] = "unset"]
  /\ ret' = [ret EXCEPT ![t] = "none"]
  /\ UNCHANGED <<instance, cfg_calls>>

\* state_->setJointGroupPositions(joint_group, joint_pose) (lines 281, 344)
SetJointGroupPositions(t) ==
  /\ pc[t] \in {"init_set", "upd_set"}
  /\ state_' = joint_pose[t]
  /\ pc' = [pc EXCEPT ![t] = IF pc[t] = "init_set" THEN "init_fk" ELSE "upd_fk"]
  /\ UNCHANGED <<config, tool_goal_pose_, cfg_ret, cfg_exact, req, req_ret, parameters,
                 parameters0, joint_pose, tool_current_pose, iteration_count, converged,
                 outcome, checks_failed, updates, filtered, ret, cfg_calls>>

\* tool_current_pose = state_->getGlobalLinkTransform(tool_link_) (lines 282, 345-347)
GetGlobalLinkTransform(t) ==
  /\ pc[t] \in {"init_fk", "upd_fk"}
  /\ tool_current_pose' = [tool_current_pose EXCEPT ![t] = GlobalLinkTransform(state_)]
  /\ iteration_count' =
       [iteration_count EXCEPT ![t] = IF pc[t] = "upd_fk" THEN @ + 1 ELSE @]
  /\ pc' = [pc EXCEPT ![t] = "loop"]
  /\ UNCHANGED <<instance, parameters, parameters0, joint_pose, converged, outcome,
                 checks_failed, updates, filtered, ret, cfg_calls>>

\* the loop test, the twist and the convergence check (lines 302-315)
CheckConvergence(t) ==
  /\ pc[t] = "loop"
  /\ IF LoopContinues(iteration_count[t], max_iterations_)
       THEN IF ConvergenceReached(
                 computeTwist(tool_current_pose[t], tool_goal_pose_, dof_nullity_),
                 cartesian_convergence_thresholds_)
              THEN /\ converged' = [converged EXCEPT ![t] = TRUE]
                   /\ outcome' = [outcome EXCEPT ![t] = "Converged"]
                   /\ pc' = [pc EXCEPT ![t] = "return"]
                   /\ UNCHANGED checks_failed
              ELSE /\ checks_failed' = [checks_failed EXCEPT ![t] = @ + 1]
                   /\ pc' = [pc EXCEPT ![t] = "jacobian"]
                   /\ UNCHANGED <<converged, outcome>>
       ELSE /\ outcome' = [outcome EXCEPT ![t] = "IterationBudgetExhausted"]
            /\ pc' = [pc EXCEPT ![t] = "return"]
            /\ UNCHANGED <<converged, checks_failed>>
  /\ UNCHANGED <<instance, parameters, parameters0, joint_pose, tool_current_pose,
                 iteration_count, updates, filtered, ret, cfg_calls>>

\* the Jacobian, its damped pseudo inverse and the joint update (lines 317-341);
\* available is what getJacobian returns
UpdateJoints(t, available) ==
  /\ pc[t] = "jacobian"
  /\ IF available
       THEN /\ joint_pose' =
                 [joint_pose EXCEPT ![t] =
                    UpdatedJoints(@, joint_update_rates_,
                      JointDelta(state_,
                        computeTwist(tool_current_pose[t], tool_goal_pose_, dof_nullity_),
                        dof_nullity_))]
            /\ updates' = [updates EXCEPT ![t] = @ + 1]
            /\ pc' = [pc EXCEPT ![t] = "upd_set"]
            /\ UNCHANGED outcome
       ELSE /\ outcome' = [outcome EXCEPT ![t] = "JacobianUnavailable"]
            /\ pc' = [pc EXCEPT ![t] = "return"]
            /\ UNCHANGED <<joint_pose, updates>>
  /\ UNCHANGED <<instance, parameters, parameters0, tool_current_pose, iteration_count,
                 converged, checks_failed, filtered, ret, cfg_calls>>

\* runIK returns and filter() finishes (lines 258-268)
FilterReturn(t) ==
  /\ pc[t] = "return"
  /\ LET r == FilterResult(parameters[t], RunIKReturn(t), joint_pose[t])
     IN  /\ parameters' = [parameters EXCEPT ![t] = r.parameters]
         /\ filtered' = [filtered EXCEPT ![t] = r.filtered]
         /\ ret' = [ret EXCEPT ![t] = r.ret]
  /\ pc' = [pc EXCEPT ![t] = "idle"]
  /\ UNCHANGED <<instance, parameters0, joint_pose, tool_current_pose, iteration_count,
                 converged, outcome, checks_failed, updates, cfg_calls>>

\* ------------------------------------------------------ specifications
Threads == {1, 2}

Init ==
  /\ dof_nullity_ = <<>>
  /\ cartesian_convergence_thresholds_ = <<>>
  /\ joint_update_rates_ = <<>>
  /\ max_iterations_ \in {0, MaxIterBound}
  /\ tool_goal_pose_ = NoPose
  /\ state_ = NullState
  /\ cfg_ret = "none"
  /\ cfg_exact = FALSE
  /\ req = NoRequest
  /\ req_ret = NoReturn
  /\ pc = [t \in Threads |-> "idle"]
  /\ parameters = [t \in Threads |-> <<>>]
  /\ parameters0 = [t \in Threads |-> <<>>]
  /\ joint_pose = [t \in Threads |-> <<>>]
  /\ tool_current_pose = [t \in Threads |-> NoPose]
  /\ iteration_count = [t \in Threads |-> 0]
  /\ converged = [t \in Threads |-> FALSE]
  /\ outcome = [t \in Threads |-> "Iterating"]
  /\ checks_failed = [t \in Threads |-> 0]
  /\ updates = [t \in Threads |-> 0]
  /\ filtered = [t \in Threads |-> "unset"]
  /\ ret = [t \in Threads |-> "none"]
  /\ cfg_calls = 0

\* one rollout at a time
Call == \E m \in Trajectories : FilterCall(1, m)
SetState == SetJointGroupPositions(1)
GetPose == GetGlobalLinkTransform(1)
Check == CheckConvergence(1)
Update == \E available \in BOOLEAN : UpdateJoints(1, available)
Return == FilterReturn(1)

Next ==
  \/ Configure
  \/ PlanRequest
  \/ SetMotionPlanRequest
  \/ Call
  \/ SetState
  \/ GetPose
  \/ Check
  \/ Update
  \/ Return

Spec == Init /\ [][Next]_vars

\* the solver works as in one rollout at a time, and a started solve keeps running
FairSpec ==
  /\ Spec
  /\ WF_vars(SetState) /\ WF_vars(GetPose) /\ WF_vars(Check) /\ WF_vars(Update)
  /\ WF_vars(Return)

\* rollouts filtered in parallel on one configured instance whose goal is set
ConcInit ==
  /\ dof_nullity_ = AllAxes
  /\ cartesian_convergence_thresholds_ = Loose
  /\ joint_update_rates_ \in {<<1, 1>>, <<2, 2>>}
  /\ max_iterations_ \in 1 .. MaxIterBound
  /\ tool_goal_pose_ \in {Pose(<<Grid, 0, 0>>, 0), Pose(<<0, Grid, 0>>, 0)}
  /\ state_ = <<0, 0>>
  /\ cfg_ret = "true"
  /\ cfg_exact = TRUE
  /\ req = NoRequest
  /\ req_ret = [ret |-> "true", error_code |-> "SUCCESS", source |-> "cartesian"]
  /\ pc = [t \in Threads |-> "idle"]
  /\ parameters = [t \in Threads |-> <<>>]
  /\ parameters0 = [t \in Threads |-> <<>>]
  /\ joint_pose = [t \in Threads |-> <<>>]
  /\ tool_current_pose = [t \in Threads |-> NoPose]
  /\ iteration_count = [t \in Threads |-> 0]
  /\ converged = [t \in Threads |-> FALSE]
  /\ outcome = [t \in Threads |-> "Iterating"]
  /\ checks_failed = [t \in Threads |-> 0]
  /\ updates = [t \in Threads |-> 0]
  /\ filtered = [t \in Threads |-> "unset"]
  /\ ret = [t \in Threads |-> "none"]
  /\ cfg_calls = 1

\* each of the two rollouts is filtered once
ConcCall == \E t \in Threads, m \in Trajectories : parameters[t] = <<>> /\ FilterCall(t, m)
ConcSetState == \E t \in Threads : SetJointGroupPositions(t)
ConcGetPose == \E t \in Threads : GetGlobalLinkTransform(t)
ConcCheck == \E t \in Threads : CheckConvergence(t)
ConcUpdate == \E t \in Threads, available \in BOOLEAN : UpdateJoints(t, available)
ConcReturn == \E t \in Threads : FilterReturn(t)

ConcNext ==
  \/ ConcCall
  \/ ConcSetState
  \/ ConcGetPose
  \/ ConcCheck
  \/ ConcUpdate
  \/ ConcReturn

ConcSpec == ConcInit /\ [][ConcNext]_vars

\* ------------------------------------------------------------ properties
\* filter() has returned to the pipeline in invocation t
Done(t) == pc[t] = "idle" /\ ret[t] # "none"
\* the IK seed of invocation t
Seed(t) == RightCol(parameters0[t])
Failed(t) == outcome[t] \in {"IterationBudgetExhausted", "JacobianUnavailable"}

\* runIK carried out without interference and with the Jacobian available (lines 271-353)
RECURSIVE SolveFrom(_, _)
SolveFrom(q, count) ==
  IF ~LoopContinues(count, max_iterations_) THEN [converged |-> FALSE, joint_pose |-> q]
  ELSE LET twist == computeTwist(GlobalLinkTransform(q), tool_goal_pose_, dof_nullity_)
       IN  IF ConvergenceReached(twist, cartesian_convergence_thresholds_)
             THEN [converged |-> TRUE, joint_pose |-> q]
             ELSE SolveFrom(UpdatedJoints(q, joint_update_rates_,
                                          JointDelta(q, twist, dof_nullity_)), count + 1)
SolveAlone(q) == SolveFrom(q, 0)

\* every gain is applied exactly: no joint update is rounded
ExactArithmetic ==
  \A t \in Threads :
    pc[t] = "jacobian" =>
      LET delta == JointDelta(state_,
                     computeTwist(tool_current_pose[t], tool_goal_pose_, dof_nullity_),
                     dof_nullity_)
      IN  \A j \in Joints : (joint_update_rates_[j] * delta[j]) % RateDen = 0

\* one rollout at a time, a solve steps exactly as runIK does on its own
StepsAgreeWithSolve ==
  \A t \in Threads :
    Done(t) /\ outcome[t] # "JacobianUnavailable" =>
      /\ RunIKReturn(t) = SolveAlone(Seed(t)).converged
      /\ joint_pose[t] = SolveAlone(Seed(t)).joint_pose

\* C1: when the IK solve fails (budget exhausted or Jacobian unavailable), filter()
\* leaves every entry of the waypoint matrix as it was before the call and sets
\* filtered = false
C1_FailureLeavesWaypoints ==
  \A t \in Threads :
    Done(t) /\ Failed(t) => parameters[t] = parameters0[t] /\ filtered[t] = "false"

\* a failed solve whose joint vector had moved away from the seed
C1_Witness ==
  /\ Done(1) /\ outcome[1] = "IterationBudgetExhausted"
  /\ joint_pose[1] # Seed(1)
  /\ parameters[1] = parameters0[1]

\* the twist of the seed's tool pose is zero on every constrained axis
SeedOnGoal(t) ==
  LET cur == GlobalLinkTransform(Seed(t))
      rel == AngleAxis(cur.rot, tool_goal_pose_.rot)
  IN  \A a \in Axes :
        dof_nullity_[a] # 0 =>
          IF a <= 3 THEN tool_goal_pose_.trans[a] = cur.trans[a] ELSE rel.angle = 0

\* C2: for every mask, every six non-negative thresholds and MaxIterations >= 1, a seed
\* whose tool pose agrees with the goal on every constrained axis converges with zero
\* joint updates, the joint vector unchanged and filtered = true
C2_OnGoalConvergesAtOnce ==
  \A t \in Threads :
    /\ Done(t) /\ max_iterations_ >= 1 /\ SeedOnGoal(t)
    /\ \A a \in Axes : cartesian_convergence_thresholds_[a] >= 0
    => /\ outcome[t] = "Converged" /\ updates[t] = 0
       /\ joint_pose[t] = Seed(t) /\ filtered[t] = "true"

\* C3: every solve ends; it applies at most MaxIterations joint updates, and it ends in
\* IterationBudgetExhausted, returning false, only after exactly MaxIterations updates,
\* each of them preceded by a failed convergence check
C3_BudgetBoundsTheSolve ==
  /\ [](\A t \in Threads :
          /\ updates[t] <= max_iterations_
          /\ outcome[t] = "IterationBudgetExhausted" =>
               /\ updates[t] = max_iterations_
               /\ checks_failed[t] = max_iterations_
               /\ ~RunIKReturn(t))
  /\ (pc[1] # "idle") ~> (pc[1] = "idle")

\* a solve that used up a budget of more than one update
C3_Witness ==
  /\ Done(1) /\ outcome[1] = "IterationBudgetExhausted"
  /\ max_iterations_ > 1 /\ updates[1] = max_iterations_
  /\ joint_pose[1] # Seed(1)

\* C4: a solve that exhausts its budget is reported as filtered = false only: filter()
\* does not return its failure value
C4_NonConvergenceIsNoError ==
  \A t \in Threads :
    Done(t) /\ outcome[t] = "IterationBudgetExhausted" =>
      filtered[t] = "false" /\ ret[t] # "false"

\* everything invocation t handed back: by runIK, then by filter()
Returned(t) ==
  [runIK |-> <<RunIKReturn(t), joint_pose[t]>>,
   filter |-> <<ret[t], filtered[t], parameters[t]>>]

\* C5: what is returned when the Jacobian is unavailable differs from what is returned
\* when the iteration budget is exhausted
C5_JacobianFailureIsDistinct ==
  \A t \in Threads, u \in Threads :
    /\ Done(t) /\ outcome[t] = "JacobianUnavailable"
    /\ Done(u) /\ outcome[u] = "IterationBudgetExhausted"
    => Returned(t) # Returned(u)

\* C6: whatever the interleaving of two filter() invocations on one instance, each one's
\* filtered flag and written last column are those it produces when run alone
C6_RolloutsAreIndependent ==
  \A t \in Threads :
    Done(t) /\ outcome[t] # "JacobianUnavailable" =>
      LET alone == SolveAlone(Seed(t))
      IN  /\ filtered[t] = (IF alone.converged THEN "true" ELSE "false")
          /\ RightCol(parameters[t]) =
               (IF alone.converged THEN alone.joint_pose ELSE Seed(t))

\* the joint values a request asks for: for each joint the last constraint naming it,
\* else the start state; clamp says whether the joint bounds are applied to them
RequestedJoints(r, clamp) ==
  LET jcs == Head(r.goal_constraints).joint_constraints
  IN  [j \in Joints |->
         LET hits == {i \in DOMAIN jcs : jcs[i].joint = j}
             v    == IF hits = {} THEN r.start_state[j]
                     ELSE jcs[CHOOSE i \in hits : \A k \in hits : k <= i].position
         IN  IF ~clamp THEN v
             ELSE IF v < JointMin THEN JointMin ELSE IF v > JointMax THEN JointMax ELSE v]

Succeeded == req_ret'.ret = "true" /\ req_ret'.error_code = "SUCCESS"
Rejected ==
  /\ req_ret'.ret = "false" /\ req_ret'.error_code = "INVALID_GOAL_CONSTRAINTS"
  /\ tool_goal_pose_' = tool_goal_pose_

\* what setMotionPlanRequest does with the request req, the joint bounds applied or not
GoalEstablished(clamp) ==
  req # NoRequest /\ req' = NoRequest =>
    IF req.goal_constraints = <<>> THEN Rejected
    ELSE LET goal == Head(req.goal_constraints)
         IN  IF goal.position_constraints # <<>> /\ goal.orientation_constraints # <<>>
               THEN Head(goal.position_constraints).primitive_poses # <<>> =>
                      /\ Succeeded
                      /\ tool_goal_pose_' =
                           Pose(Head(Head(goal.position_constraints).primitive_poses),
                                Head(goal.orientation_constraints) % FullTurn)
             ELSE IF goal.joint_constraints # <<>>
               THEN /\ Succeeded
                    /\ tool_goal_pose_' = GlobalLinkTransform(RequestedJoints(req, clamp))
             ELSE Rejected

C8_ExactlySixEntries ==
  /\ cfg_ret # "none" /\ ~cfg_exact => cfg_ret = "false"
  /\ cfg_ret = "true" =>
       Len(dof_nullity_) = DOF_SIZE /\ Len(cartesian_convergence_thresholds_) = DOF_SIZE

\* C9: whenever configure() returns false, the stored mask, thresholds, update rates
\* and iteration budget are what they were before the call
C9_NoPartialConfiguration ==
  [][cfg_calls' # cfg_calls /\ cfg_ret' = "false" => config' = config]_vars

\* C10: whenever filter() sets filtered = true, the twist from the tool pose of the joint
\* vector it wrote into the last column to the goal pose is strictly below the threshold
\* on all six axes
C10_SuccessIsSound ==
  \A t \in Threads :
    Done(t) /\ filtered[t] = "true" =>
      LET twist == computeTwist(GlobalLinkTransform(RightCol(parameters[t])),
                                tool_goal_pose_, dof_nullity_)
      IN  \A a \in Axes : Abs(twist[a]) < cartesian_convergence_thresholds_[a]

\* a success whose written joint vector is the result of a joint update
C10_Witness ==
  /\ Done(1) /\ filtered[1] = "true" /\ updates[1] > 0
  /\ RightCol(parameters[1]) # Seed(1)

====
